---- MODULE Spec2Model ----
(***************************************************************************)
(* Model of src/utils/vector_utils.py: generate_knowledge_index,           *)
(* retrieve_related_documents and sentence_embedding.                      *)
(*                                                                         *)
(* A text is a sequence of characters; a knowledge file is a sequence of   *)
(* raw lines (each terminated by a newline); the embedding cache is a CSV  *)
(* file of rows (texts, embeddings) whose embeddings cell is the printed   *)
(* form of the embedding list.                                             *)
(***************************************************************************)
EXTENDS Integers, Sequences, FiniteSets, TLC

\* ---------------------------------------------------------------- bounds
MaxLines == 2
MaxRows == 2
MaxTextLen == 3

\* ------------------------------------------------------- texts and files
IsSpace(ch) == ch = " "

RECURSIVE LStrip(_)
LStrip(s) == IF s # <<>> /\ IsSpace(Head(s)) THEN LStrip(Tail(s)) ELSE s

RECURSIVE RStrip(_)
RStrip(s) ==
    IF s # <<>> /\ IsSpace(s[Len(s)]) THEN RStrip(SubSeq(s, 1, Len(s) - 1)) ELSE s

\* a strip that forgets the right-hand side
Strip_LeftOnly(s) == LStrip(s)

\* str.strip(): leading and trailing whitespace removed
Strip(s) == RStrip(LStrip(s))

Blank == <<" ">>
PaddedA == <<" ", "a", " ">>
PlainB == <<"b">>
RawLines == {Blank, PaddedA, PlainB}

RECURSIVE SeqsUpTo(_, _)
SeqsUpTo(S, n) ==
    IF n = 0 THEN {<<>>}
    ELSE LET shorter == SeqsUpTo(S, n - 1)
         IN  shorter \cup {Append(q, x) : q \in {r \in shorter : Len(r) = n - 1}, x \in S}

\* the contents a knowledge file can have: up to MaxLines raw lines
KnowledgeContents == SeqsUpTo(RawLines, MaxLines)

NoFile == [exists |-> FALSE, lines |-> <<>>]
TextFile(ls) == [exists |-> TRUE, lines |-> ls]

NoCsv == [exists |-> FALSE, rows |-> <<>>]
CsvFile(rs) == [exists |-> TRUE, rows |-> rs]

\* os.stat(path).st_size: every line is its characters plus the newline
RECURSIVE StSize(_)
StSize(ls) == IF ls = <<>> THEN 0 ELSE Len(Head(ls)) + 1 + StSize(Tail(ls))

\* paths are <<directory, file name>>
KnowledgePaths == {<<"d1", "a.txt">>, <<"d1", "b.txt">>}
Dirname(path) == path[1]
PathJoin(dir, name) == <<dir, name>>
\* a cache named after the knowledge file instead of shared by the directory
KnowledgeEmbeddingPath_PerFile(path) ==
    PathJoin(Dirname(path), <<path[2], "knowledge_embeddings.csv">>)

KnowledgeEmbeddingPath(path) == PathJoin(Dirname(path), "knowledge_embeddings.csv")
CachePaths == {KnowledgeEmbeddingPath(p) : p \in KnowledgePaths}

\* ----------------------------------------------------------------- model
\* A model argument: whether it is a torch.nn.Module, and the texts on which
\* its encode raises.
NotAModule == [isModule |-> FALSE, raisesOn |-> {}]
GoodModel == [isModule |-> TRUE, raisesOn |-> {}]
FlakyModel == [isModule |-> TRUE, raisesOn |-> {<<"b">>}]
Models == {NotAModule, GoodModel, FlakyModel}

RECURSIVE Count(_, _)
Count(s, ch) ==
    IF s = <<>> THEN 0 ELSE (IF Head(s) = ch THEN 1 ELSE 0) + Count(Tail(s), ch)

\* model.encode(text, convert_to_numpy=True): a numpy array
Encode(text) == [kind |-> "ndarray", data |-> <<Count(text, "a"), Count(text, "b")>>]

\* ndarray.tolist()
ToList(arr) == arr.data

\* sentence_embedding without its isinstance check
SentenceEmbedding_Unchecked(model, text) ==
    IF text \in model.raisesOn
    THEN [outcome |-> "EncodeError", result |-> <<>>, encoded |-> <<text>>]
    ELSE [outcome |-> "ok", result |-> ToList(Encode(text)), encoded |-> <<text>>]

\* sentence_embedding(model, text): the outcome, the returned list and the
\* texts passed to model.encode
SentenceEmbedding(model, text) ==
    IF model.isModule
    THEN IF text \in model.raisesOn
         THEN [outcome |-> "EncodeError", result |-> <<>>, encoded |-> <<text>>]
         ELSE [outcome |-> "ok", result |-> ToList(Encode(text)), encoded |-> <<text>>]
    ELSE [outcome |-> "TypeError", result |-> <<>>, encoded |-> <<>>]

\* ------------------------------------------------------------- the cache
\* str(list): "[", the numbers separated by ", ", "]"
RECURSIVE ReprItems(_)
ReprItems(v) ==
    IF v = <<>> THEN <<>>
    ELSE IF Len(v) = 1 THEN <<Head(v)>>
    ELSE <<Head(v), ", ">> \o ReprItems(Tail(v))

ListRepr(v) == <<"[">> \o ReprItems(v) \o <<"]">>

\* eval(x) of a printed list
RECURSIVE EvalItems(_)
EvalItems(toks) ==
    IF toks = <<>> THEN <<>>
    ELSE IF Len(toks) = 1 THEN <<Head(toks)>>
    ELSE <<Head(toks)>> \o EvalItems(Tail(Tail(toks)))

Eval(cell) == EvalItems(SubSeq(cell, 2, Len(cell) - 1))

\* pd.DataFrame(..., columns=["texts", "embeddings"]).to_csv(path, index=False)
DataFrameToCsv(pairs) ==
    CsvFile([i \in 1..Len(pairs) |->
                [texts |-> pairs[i][1], embeddings |-> ListRepr(pairs[i][2])]])

\* -------------------------------------------- generate_knowledge_index
\* a validation that also rejects a file with nothing but blank lines
KnowledgeFileInvalid_BlankIsEmpty(f) ==
    ~f.exists \/ \A i \in 1..Len(f.lines) : Strip(f.lines[i]) = <<>>

\* a validation that forgets the size
KnowledgeFileInvalid_ExistsOnly(f) == ~f.exists

\* not os.path.exists(knowledge_path) or os.stat(knowledge_path).st_size == 0
KnowledgeFileInvalid(f) == ~f.exists \/ StSize(f.lines) = 0

\* lines filtered but kept unstripped: [line for line in file if line.strip()]
RECURSIVE StrippedLines_Unstripped(_)
StrippedLines_Unstripped(ls) ==
    IF ls = <<>> THEN <<>>
    ELSE IF Strip(Head(ls)) # <<>>
         THEN <<Head(ls)>> \o StrippedLines_Unstripped(Tail(ls))
         ELSE StrippedLines_Unstripped(Tail(ls))

\* [line.strip() for line in file if line.strip()]
RECURSIVE StrippedLines(_)
StrippedLines(ls) ==
    IF ls = <<>> THEN <<>>
    ELSE IF Strip(Head(ls)) # <<>>
         THEN <<Strip(Head(ls))>> \o StrippedLines(Tail(ls))
         ELSE StrippedLines(Tail(ls))

\* a call that regenerates whether or not the cache is there
NeedsGeneration_Always(c, kep) == TRUE

\* not os.path.exists(knowledge_embedding_path)
NeedsGeneration(c, kep) == ~c[kep].exists

\* [[line, sentence_embedding(model, line)] for line in lines]: the pairs
\* built so far, the outcome, and the texts passed to model.encode; the
\* comprehension stops at the first call that raises
RECURSIVE EmbedLines(_, _)
EmbedLines(model, lines) ==
    IF lines = <<>> THEN [outcome |-> "ok", pairs |-> <<>>, encoded |-> <<>>]
    ELSE LET e == SentenceEmbedding(model, Head(lines))
         IN  IF e.outcome # "ok"
             THEN [outcome |-> e.outcome, pairs |-> <<>>, encoded |-> e.encoded]
             ELSE LET rest == EmbedLines(model, Tail(lines))
                  IN  [outcome |-> rest.outcome,
                       pairs |-> IF rest.outcome = "ok"
                                 THEN <<<<Head(lines), e.result>>>> \o rest.pairs
                                 ELSE <<>>,
                       encoded |-> e.encoded \o rest.encoded]

\* a call that forgets to save
SaveEmbeddings_Skipped(c, kep, emb) == c

\* a call that saves whatever it has when the comprehension raises
SaveEmbeddings_Always(c, kep, emb) == [c EXCEPT ![kep] = DataFrameToCsv(emb.pairs)]

\* df.to_csv runs only when the comprehension has returned
SaveEmbeddings(c, kep, emb) ==
    IF emb.outcome = "ok" THEN [c EXCEPT ![kep] = DataFrameToCsv(emb.pairs)] ELSE c

\* the whole call: its outcome, the texts passed to model.encode, and the
\* cache files afterwards
GenerateKnowledgeIndex(model, path, kf, c) ==
    IF KnowledgeFileInvalid(kf[path])
    THEN [outcome |-> "ValueError", encoded |-> <<>>, cache |-> c]
    ELSE LET lines == StrippedLines(kf[path].lines)
             kep == KnowledgeEmbeddingPath(path)
         IN  IF NeedsGeneration(c, kep)
             THEN LET emb == EmbedLines(model, lines)
                  IN  [outcome |-> emb.outcome, encoded |-> emb.encoded,
                       cache |-> SaveEmbeddings(c, kep, emb)]
             ELSE [outcome |-> "ok", encoded |-> <<>>, cache |-> c]

\* ------------------------------------------ retrieve_related_documents
Sign(n) == IF n > 0 THEN 1 ELSE IF n < 0 THEN -1 ELSE 0

RECURSIVE Dot(_, _)
Dot(u, v) == IF u = <<>> THEN 0 ELSE Head(u) * Head(v) + Dot(Tail(u), Tail(v))

\* F.cosine_similarity of two vectors: c = u.v / max(|u| |v|, eps).  The score
\* is kept exactly, as the fraction sgn(c) c^2 = num / den; scores are ordered
\* and equal as their cosines are.  A zero vector gives 0.
CosineSimilarity(u, v) ==
    LET d == Dot(u, v)
        n == Dot(u, u) * Dot(v, v)
    IN  IF n = 0 THEN [num |-> 0, den |-> 1] ELSE [num |-> Sign(d) * d * d, den |-> n]

\* s1 < s2 on scores
ScoreLess(s1, s2) == s1.num * s2.den < s2.num * s1.den

\* knowledge_df["embeddings"].apply(lambda x: eval(x))
EvalColumn(df) == [i \in 1..Len(df) |-> Eval(df[i].embeddings)]

\* list(zip(texts, similarities))
Zip(texts, sims) ==
    [i \in 1..(IF Len(texts) < Len(sims) THEN Len(texts) ELSE Len(sims)) |->
        <<texts[i], sims[i]>>]

\* pairs.sort(key=lambda x: x[1], reverse=True): stable, highest score first
RECURSIVE InsertByScore(_, _)
InsertByScore(p, sorted) ==
    IF sorted = <<>> THEN <<p>>
    ELSE IF ScoreLess(Head(sorted)[2], p[2])
         THEN <<p>> \o sorted
         ELSE <<Head(sorted)>> \o InsertByScore(p, Tail(sorted))

RECURSIVE SortByScore(_)
SortByScore(pairs) ==
    IF pairs = <<>> THEN <<>>
    ELSE InsertByScore(pairs[Len(pairs)], SortByScore(SubSeq(pairs, 1, Len(pairs) - 1)))

\* the whole call.  With no rows torch.tensor(embeddings) has shape [0], which
\* F.cosine_similarity cannot broadcast against the query along dim 1: it raises.
RetrieveRelatedDocuments(query, df) ==
    LET texts == [i \in 1..Len(df) |-> df[i].texts]
        embeddings == EvalColumn(df)
    IN  IF Len(embeddings) = 0
        THEN [outcome |-> "RuntimeError", pairs |-> <<>>]
        ELSE LET similarities == [i \in 1..Len(embeddings) |->
                                     CosineSimilarity(query, embeddings[i])]
             IN  [outcome |-> "ok", pairs |-> SortByScore(Zip(texts, similarities))]

\* ----------------------------------------------------------------- state
VARIABLES
    kfile,        \* knowledge files: KnowledgePaths -> file
    cache,        \* knowledge_embeddings.csv files: CachePaths -> csv file
    last,         \* the call that has just returned, if the last step was a call
    written,      \* per cache path: writes by calls since anything else deleted it
    returned,     \* per knowledge path: a call returned normally since then
    args,         \* arguments of a call of one of the two pure functions
    res           \* what that call did, once it has been made

genVars == <<kfile, cache, last, written, returned>>
funVars == <<args, res>>
vars == <<kfile, cache, last, written, returned, args, res>>

NoCall == [op |-> "none", path |-> <<"", "">>, model |-> NotAModule,
           outcome |-> "none", encoded |-> <<>>,
           cacheBefore |-> [p \in CachePaths |-> NoCsv], returnedBefore |-> FALSE]

NoArgs == [fn |-> "none"]
NoRes == [done |-> FALSE]

InitFiles ==
    /\ kfile = [p \in KnowledgePaths |-> NoFile]
    /\ cache = [p \in CachePaths |-> NoCsv]
    /\ last = NoCall
    /\ written = [p \in CachePaths |-> 0]
    /\ returned = [p \in KnowledgePaths |-> FALSE]

Init == InitFiles /\ args = NoArgs /\ res = NoRes

\* "more than once" is all that is counted past one
Bump(n) == IF n < 2 THEN n + 1 ELSE n

\* generate_knowledge_index(model, knowledge_path)
Generate ==
    /\ \E model \in Models, path \in KnowledgePaths :
        LET r == GenerateKnowledgeIndex(model, path, kfile, cache)
            kep == KnowledgeEmbeddingPath(path)
        IN  /\ cache' = r.cache
            /\ last' = [op |-> "generate", path |-> path, model |-> model,
                        outcome |-> r.outcome, encoded |-> r.encoded,
                        cacheBefore |-> cache, returnedBefore |-> returned[path]]
            /\ written' = [written EXCEPT
                              ![kep] = IF r.cache[kep] # cache[kep] THEN Bump(@) ELSE @]
            /\ returned' = [returned EXCEPT ![path] = @ \/ r.outcome = "ok"]
    /\ UNCHANGED <<kfile, args, res>>

\* the environment adds a line to a knowledge file, creating it if need be
AppendLine ==
    /\ \E path \in KnowledgePaths, line \in RawLines :
          /\ Len(kfile[path].lines) < MaxLines
          /\ kfile' = [kfile EXCEPT ![path] = TextFile(Append(kfile[path].lines, line))]
    /\ last' = NoCall
    /\ UNCHANGED <<cache, written, returned, args, res>>

\* the environment empties a knowledge file, creating it if need be
TruncateKnowledge ==
    /\ \E path \in KnowledgePaths :
          /\ kfile[path] # TextFile(<<>>)
          /\ kfile' = [kfile EXCEPT ![path] = TextFile(<<>>)]
    /\ last' = NoCall
    /\ UNCHANGED <<cache, written, returned, args, res>>

\* the environment removes a knowledge file
RemoveKnowledge ==
    /\ \E path \in KnowledgePaths :
          /\ kfile[path].exists
          /\ kfile' = [kfile EXCEPT ![path] = NoFile]
    /\ last' = NoCall
    /\ UNCHANGED <<cache, written, returned, args, res>>

\* the environment deletes a cache file
DeleteCache ==
    /\ \E kep \in CachePaths :
          /\ cache[kep].exists
          /\ cache' = [cache EXCEPT ![kep] = NoCsv]
          /\ written' = [written EXCEPT ![kep] = 0]
          /\ returned' = [p \in KnowledgePaths |->
                             IF KnowledgeEmbeddingPath(p) = kep THEN FALSE ELSE returned[p]]
    /\ last' = NoCall
    /\ UNCHANGED <<kfile, args, res>>

Next == Generate \/ AppendLine \/ TruncateKnowledge \/ RemoveKnowledge \/ DeleteCache

Spec == Init /\ [][Next]_vars

\* ---------------------------------- retrieve_related_documents, on its own
Components == {-1, 0, 1}
Vectors == {<<x, y>> : x \in Components, y \in Components}
FrameTexts == {<<"a">>, <<"b">>}
\* rows as they are read back from a cache file
FrameRows == {[texts |-> t, embeddings |-> ListRepr(v)] : t \in FrameTexts, v \in Vectors}
Frames == SeqsUpTo(FrameRows, MaxRows)

InitRetrieve ==
    /\ InitFiles
    /\ \E q \in Vectors, df \in Frames :
          args = [fn |-> "retrieve_related_documents", query |-> q, df |-> df]
    /\ res = NoRes

Retrieve ==
    /\ args.fn = "retrieve_related_documents"
    /\ ~res.done
    /\ LET r == RetrieveRelatedDocuments(args.query, args.df)
       IN  res' = [done |-> TRUE, outcome |-> r.outcome, pairs |-> r.pairs]
    /\ UNCHANGED <<args, kfile, cache, last, written, returned>>

NextRetrieve == Retrieve

SpecRetrieve == InitRetrieve /\ [][NextRetrieve]_vars

\* ------------------------------------------- sentence_embedding, on its own
TextChars == {" ", "a", "b"}
Texts == SeqsUpTo(TextChars, MaxTextLen)

InitEmbed ==
    /\ InitFiles
    /\ \E m \in Models, t \in Texts :
          args = [fn |-> "sentence_embedding", model |-> m, text |-> t]
    /\ res = NoRes

Embed ==
    /\ args.fn = "sentence_embedding"
    /\ ~res.done
    /\ LET r == SentenceEmbedding(args.model, args.text)
       IN  res' = [done |-> TRUE, outcome |-> r.outcome, result |-> r.result,
                   encoded |-> r.encoded]
    /\ UNCHANGED <<args, kfile, cache, last, written, returned>>

NextEmbed == Embed

SpecEmbed == InitEmbed /\ [][NextEmbed]_vars

\* ================================================================ claims
\* the call that has just returned, and what it was called on
Called == last.op = "generate"
Kep == KnowledgeEmbeddingPath(last.path)
File == kfile[last.path]
HadCache == last.cacheBefore[Kep].exists
Usable(f) == f.exists /\ f.lines # <<>>
Raised == last.outcome \in {"TypeError", "EncodeError"}

NonBlank(line) == \E i \in 1..Len(line) : line[i] # " "
Kept(f) == SelectSeq(f.lines, NonBlank)

\* t is line without its leading and trailing spaces
IsStripOf(t, line) ==
    \E i \in 1..Len(line), j \in 1..Len(line) :
        /\ t = SubSeq(line, i, j)
        /\ t # <<>> /\ t[1] # " " /\ t[Len(t)] # " "
        /\ \A k \in 1..Len(line) : (k < i \/ k > j) => line[k] = " "

\* sentence_embedding succeeds on every kept line of f
Works(model, f) ==
    /\ model.isModule
    /\ \A i \in 1..Len(Kept(f)) : \A t \in model.raisesOn : ~IsStripOf(t, Kept(f)[i])

\* csv has one row per kept line of f, in order: its stripped text and the
\* printed embedding of that text
CacheMatchesFile(csv, f) ==
    /\ csv.exists
    /\ Len(csv.rows) = Len(Kept(f))
    /\ \A i \in 1..Len(csv.rows) :
          /\ IsStripOf(csv.rows[i].texts, Kept(f)[i])
          /\ Eval(csv.rows[i].embeddings) = Encode(csv.rows[i].texts).data

TextsOf(csv) == [i \in 1..Len(csv.rows) |-> csv.rows[i].texts]

\* C1: a call on a knowledge file that is missing or has size 0 raises
\* ValueError, whether or not the cache exists; the model is not invoked and
\* no cache file is created or modified.
C1_InvalidFileRaisesValueError ==
    (Called /\ ~Usable(File)) =>
        /\ last.outcome = "ValueError"
        /\ last.encoded = <<>>
        /\ cache = last.cacheBefore

C1_Witness ==
    Called /\ File.exists /\ File.lines = <<>> /\ HadCache /\ last.outcome = "ValueError"

\* C2: with the cache already present and an existing non-empty knowledge
\* file, the call returns normally, never invokes the model (not even for a
\* model that is no torch.nn.Module) and leaves the cache as it was.
C2_ExistingCacheSkipsGeneration ==
    (Called /\ Usable(File) /\ HadCache) =>
        /\ last.outcome = "ok"
        /\ last.encoded = <<>>
        /\ cache = last.cacheBefore

C2_Witness ==
    /\ Called /\ Usable(File) /\ HadCache /\ Kept(File) # <<>>
    /\ ~last.model.isModule /\ last.outcome = "ok"

\* C3 (as stated): while nothing else deletes the cache it is written at most
\* once, and the model is invoked only during the first call on the path that
\* returns successfully.
C3_AsStated ==
    Called =>
        /\ written[Kep] <= 1
        /\ last.encoded # <<>> => (last.outcome = "ok" /\ ~last.returnedBefore)

\* C3 (amended): while nothing else deletes the cache it is written at most
\* once, and every call on the path after the first one that returned
\* successfully invokes the model zero times and leaves the cache alone.
C3_OneTimeGeneration ==
    Called =>
        /\ written[Kep] <= 1
        /\ last.returnedBefore => (last.encoded = <<>> /\ cache = last.cacheBefore)

C3_Witness ==
    /\ Called /\ last.returnedBefore /\ Usable(File) /\ Works(last.model, File)
    /\ Kept(File) # <<>> /\ written[Kep] = 1 /\ last.encoded = <<>>
    /\ ~CacheMatchesFile(cache[Kep], File)

\* C4 (as stated): after any successful return the cache rows are exactly the
\* lines of the current knowledge file, each with its embedding.
C4_AsStated ==
    (Called /\ last.outcome = "ok") => CacheMatchesFile(cache[Kep], File)

\* C4 (amended): after a successful return the cache exists; if the call found
\* no cache its rows are exactly the stripped non-blank lines of the current
\* knowledge file, in order, each with its embedding; if the call found a
\* cache, that cache is unchanged.
C4_CacheAfterReturn ==
    (Called /\ last.outcome = "ok") =>
        /\ cache[Kep].exists
        /\ IF HadCache THEN cache[Kep] = last.cacheBefore[Kep]
                       ELSE CacheMatchesFile(cache[Kep], File)

C4_Witness ==
    /\ Called /\ last.outcome = "ok" /\ HadCache /\ ~last.returnedBefore
    /\ cache[Kep].rows # <<>> /\ Kept(File) # <<>>
    /\ ~CacheMatchesFile(cache[Kep], File)

\* C5: with a model that works and no cache, the call writes the cache with
\* one row per non-blank line, in file order: the stripped line and its
\* sentence embedding; the model is invoked once per row, in that order, and
\* never for a blank line.
C5_FreshCacheRows ==
    (Called /\ Usable(File) /\ ~HadCache /\ Works(last.model, File)) =>
        /\ last.outcome = "ok"
        /\ cache[Kep].exists
        /\ Len(cache[Kep].rows) = Len(Kept(File))
        /\ \A i \in 1..Len(cache[Kep].rows) :
              /\ IsStripOf(cache[Kep].rows[i].texts, Kept(File)[i])
              /\ Eval(cache[Kep].rows[i].embeddings) =
                     SentenceEmbedding(last.model, cache[Kep].rows[i].texts).result
        /\ last.encoded = TextsOf(cache[Kep])
        /\ \A kp \in DOMAIN cache : kp # Kep => cache[kp] = last.cacheBefore[kp]

C5_Witness ==
    /\ Called /\ ~HadCache /\ Works(last.model, File)
    /\ File.lines = <<Blank, PaddedA>>
    /\ Len(cache[Kep].rows) = 1 /\ Len(last.encoded) = 1

\* C8: when sentence_embedding raises during generation no cache file is
\* left behind, and the next call on that file with a model that works embeds
\* every kept line.
C8_FailedGenerationLeavesNoCache ==
    [][ /\ (last'.op = "generate" /\ last'.outcome \in {"TypeError", "EncodeError"}) =>
              (\A kp \in DOMAIN cache' : kp[1] = Dirname(last'.path) => ~cache'[kp].exists)
        /\ (/\ Called /\ Raised
            /\ last'.op = "generate" /\ last'.path = last.path
            /\ Works(last'.model, kfile[last.path])) =>
              /\ last'.outcome = "ok"
              /\ Len(last'.encoded) = Len(Kept(kfile[last.path]))
              /\ CacheMatchesFile(cache'[KnowledgeEmbeddingPath(last.path)], kfile[last.path])
      ]_vars

C8_Witness ==
    /\ Called /\ last.outcome = "EncodeError" /\ Len(last.encoded) = 2
    /\ ~cache[Kep].exists

\* C9: two different knowledge files of one directory share one cache file:
\* when a call on the first has generated it, a successful call on the second
\* invokes the model zero times and the cache keeps the rows of the first.
C9_CacheSharedPerDirectory ==
    [][ (/\ Called /\ last.outcome = "ok"
         /\ \A kp \in DOMAIN cache : kp[1] = Dirname(last.path) => ~last.cacheBefore[kp].exists
         /\ last'.op = "generate" /\ last'.outcome = "ok"
         /\ last'.path # last.path /\ Dirname(last'.path) = Dirname(last.path)) =>
            /\ last'.encoded = <<>>
            /\ \A kp \in DOMAIN cache : kp[1] = Dirname(last.path) =>
                  /\ cache'[kp] = cache[kp]
                  /\ CacheMatchesFile(cache'[kp], kfile[last.path])
      ]_vars

C9_Witness ==
    /\ Called /\ last.outcome = "ok" /\ HadCache /\ last.model.isModule
    /\ Kept(File) # <<>>
    /\ \E p \in KnowledgePaths :
          /\ p # last.path /\ Dirname(p) = Dirname(last.path)
          /\ CacheMatchesFile(cache[Kep], kfile[p])
          /\ cache[Kep].rows # <<>>
    /\ ~CacheMatchesFile(cache[Kep], File)

\* C10: a knowledge file of non-zero size with only blank lines is accepted:
\* with no cache the call returns normally for any model without invoking it
\* and writes a cache with zero rows, after which calls on that directory skip
\* generation.
C10_BlankOnlyFileWritesEmptyCache ==
    [][ /\ (/\ last'.op = "generate" /\ Usable(kfile'[last'.path])
            /\ Kept(kfile'[last'.path]) = <<>>
            /\ \A kp \in DOMAIN cache : kp[1] = Dirname(last'.path) => ~cache[kp].exists) =>
              /\ last'.outcome = "ok"
              /\ last'.encoded = <<>>
              /\ \E kp \in DOMAIN cache' : kp[1] = Dirname(last'.path) /\ cache'[kp] = CsvFile(<<>>)
        /\ (/\ last'.op = "generate" /\ Usable(kfile'[last'.path])
            /\ \E kp \in DOMAIN cache : kp[1] = Dirname(last'.path) /\ cache[kp] = CsvFile(<<>>)) =>
              /\ last'.outcome = "ok"
              /\ last'.encoded = <<>>
              /\ cache' = cache
      ]_vars

C10_Witness ==
    /\ Called /\ ~last.model.isModule /\ last.outcome = "ok"
    /\ File.lines = <<Blank, Blank>> /\ ~HadCache
    /\ cache[Kep] = CsvFile(<<>>)

\* C6 (as stated): the call returns one (text, similarity) pair per row of
\* knowledge_df, each text with the similarity of its own row's embedding to
\* the query, highest similarity first.
ExpectedPair(i) ==
    <<args.df[i].texts, CosineSimilarity(args.query, Eval(args.df[i].embeddings))>>

PairsAreRows ==
    /\ Len(res.pairs) = Len(args.df)
    /\ \E perm \in [1..Len(args.df) -> 1..Len(args.df)] :
          /\ \A i, j \in 1..Len(args.df) : i # j => perm[i] # perm[j]
          /\ \A i \in 1..Len(args.df) : res.pairs[i] = ExpectedPair(perm[i])

NonIncreasing ==
    \A i \in 1..(Len(res.pairs) - 1) : ~ScoreLess(res.pairs[i][2], res.pairs[i + 1][2])

C6_AsStated ==
    (res.done /\ args.fn = "retrieve_related_documents") =>
        (res.outcome = "ok" /\ PairsAreRows /\ NonIncreasing)

\* C6, for a frame with at least one row: the call returns the rows as pairs,
\* each with its own similarity, highest first.
C6_NonEmptyFrame ==
    (res.done /\ args.fn = "retrieve_related_documents" /\ args.df # <<>>) =>
        (res.outcome = "ok" /\ PairsAreRows /\ NonIncreasing)

\* C7: sentence_embedding raises its TypeError exactly when the model is not a
\* torch.nn.Module, and then never calls encode; for a torch.nn.Module it
\* calls encode once on the text and returns the result as a list.
C7_TypeCheckOnModel ==
    (res.done /\ args.fn = "sentence_embedding") =>
        /\ (res.outcome = "TypeError") <=> ~args.model.isModule
        /\ ~args.model.isModule => res.encoded = <<>>
        /\ args.model.isModule =>
              /\ res.encoded = <<args.text>>
              /\ args.text \notin args.model.raisesOn =>
                    (res.outcome = "ok" /\ res.result = Encode(args.text).data)

C7_Witness ==
    /\ res.done /\ args.fn = "sentence_embedding"
    /\ ~args.model.isModule /\ args.text # <<>> /\ res.outcome = "TypeError"

====
